---- MODULE Spec2Model ----
(***************************************************************************)
(* Model of the orchestration and report pipeline of codebase_analysis:    *)
(*   Orchestrator.register_agent / Orchestrator.run   (orchestrator.py)    *)
(*   ReportGenerator.generate                         (report/generator.py)*)
(*                                                                         *)
(* Strings that are taken apart by the code (path names) are sequences of  *)
(* tokens, "." being a token of its own.  A Python dict is a sequence of   *)
(* [key, val] records in insertion order.  An optional list (formats) is a *)
(* record [given, ids]; given = FALSE is Python's None.                    *)
(***************************************************************************)
EXTENDS Integers, Sequences, FiniteSets, TLC

VARIABLES
    agents,        \* Orchestrator.agents: names of the registered units, in order
    writable,      \* environment: the base path's directory exists and is writable
    pc,            \* position of the caller / of Orchestrator.run / of generate
    output_path,   \* run's argument output_path (sequence of name tokens)
    formats,       \* run's argument formats
    idx,           \* number of iterations of "for agent in self.agents" done
    results,       \* run's local results (ordered dict)
    gen_calls,     \* number of invocations of ReportGenerator.generate
    gen_args,      \* the arguments generate received
    eff_formats,   \* generate's local formats after defaulting (sequence of ids)
    html_content,  \* generate's local html_content has been rendered
    written,       \* generate's local list written
    pdf_outcome,   \* what the PDF backend has been seen to do ("none": not used yet)
    docx_outcome,  \* what the DOCX backend has been seen to do
    fs,            \* the file system: path -> content
    log,           \* history: the units run, the generate call and the writes, in order
    gen_ret,       \* generate's return value
    ret,           \* run's return value
    exc,           \* the exception that left run, if any
    unit_vals,     \* history: the values the units' run calls returned, in order
    caller,        \* who called generate: "run", or "direct" for a caller of its own
    first_ret,     \* two calls of generate: what the first call returned
    j_results,     \* JSON round trip: the document handed to json.dumps
    j_text,        \* JSON round trip: the text in the .json file
    j_data,        \* JSON round trip: what json.load made of the file
    env,           \* a built-in unit's surroundings: credentials, services, repository
    unit_run,      \* the built-in unit that was run and how its run ended
    request,       \* /analyze: the JSON payload of the request
    api_pc,        \* /analyze: position of the handler
    tmp_repo_ctx,  \* /analyze: the temporary directory: created, times cleaned up
    clones,        \* /analyze: how each Repo.clone_from call ended, in order
    orchestrators, \* /analyze: number of Orchestrator objects created
    response,      \* /analyze: the response sent
    dl_filename,   \* /download: the filename of the request (path components)
    dl_response,   \* /download: the response sent
    py_files,      \* a unit's _collect_py_files(): the files as the unit reads them
    file_idx,      \* a unit's loop over py_files: number of files done
    findings,      \* the findings / issues a unit has collected
    attempt,       \* analyze_code: the loop variable of the retry loop
    calls,         \* analyze_code: how each generate_content call ended, in order
    sleeps,        \* analyze_code: the arguments of the time.sleep calls, in order
    inner_pc,      \* position inside the unit under study
    inner_ret,     \* what the unit / analyze_code returned (ordered dict)
    handlers,      \* concurrent /analyze requests: each handler's locals
    report_dir     \* concurrent /analyze requests: REPORT_DIR, name -> writers

\* the state of generate's direct callers and of the JSON round trip
genVars == <<caller, first_ret>>

jsonVars == <<j_results, j_text, j_data>>

\* the state outside Orchestrator.run and ReportGenerator.generate
unitVars == <<env, unit_run>>

apiVars == <<request, api_pc, tmp_repo_ctx, clones, orchestrators, response>>

dlVars == <<dl_filename, dl_response>>

\* the inside of a built-in unit: its files, its loop, its collaborator calls
innerVars == <<py_files, file_idx, findings, attempt, calls, sleeps, inner_pc,
               inner_ret>>

parVars == <<handlers, report_dir>>

extVars == <<genVars, jsonVars, unitVars, apiVars, dlVars, innerVars, parVars>>

coreVars == <<agents, writable, pc, output_path, formats, idx, results, gen_calls,
              gen_args, eff_formats, html_content, written, pdf_outcome,
              docx_outcome, fs, log, gen_ret, ret, exc, unit_vals>>

vars == <<coreVars, extVars>>

\* ------------------------------------------------------------------ bounds
MaxAgents == 2

\* longest filename of a download request, in path components
DlMaxDepth == 3

\* longest file text handed to the security scan, in tokens
MaxTokens == 2

\* most files a repository holds
MaxFiles == 2

\* --------------------------------------------------------------- vocabulary
\* names of the built-in units (their name properties)
UnitNames == {"parser_results", "security_findings", "performance_issues"}

\* what a unit's run can hand back: a mapping of the built-in units' form with
\* something to report ("std": metrics, or count >= 1 and as many issues), the same
\* with nothing to report ("clean": {"count": 0, "issues": []}), or a mapping whose
\* issues list / summary holds a value the markdown section cannot read
\* ("odd", e.g. {"count": 1, "issues": ["slow"]})
Shapes == {"std", "clean", "odd"}

\* the format identifiers a caller may send: the five supported ones and a foreign
\* one (the one the tests send)
IdOrder == <<"json", "html", "md", "pdf", "docx", "invalid_format">>

Range(s) == {s[i] : i \in 1..Len(s)}

Ids == Range(IdOrder)

SeqOf(S) == SelectSeq(IdOrder, LAMBDA x : x \in S)

None == [given |-> FALSE, ids |-> <<>>]

List(s) == [given |-> TRUE, ids |-> s]

\* the formats arguments of a call: None, the empty list, every list of one or two
\* identifiers, and the list of all five supported ones (the web endpoint's default)
FormatChoices ==
    {None, List(<<"json", "html", "md", "pdf", "docx">>)}
        \cup {List(SeqOf({a, b})) : a, b \in Ids} \cup {List(<<>>)}

\* base paths (last path component, as tokens): plain, with a dot inside, hidden file
BasePaths == {<<"report">>, <<"report", ".", "v2">>, <<".", "report">>}

NoExc == [type |-> "none", ids |-> {}, unit |-> 0]

NoReturn == [returned |-> FALSE, doc |-> <<>>]

NoArgs == [base_path |-> <<>>, results |-> <<>>, formats |-> None]

\* ------------------------------------------------------------ ordered dict
Keys(d) == [i \in 1..Len(d) |-> d[i].key]

KeySet(d) == {d[i].key : i \in 1..Len(d)}

DictSetPrepend(d, k, v) ==
    IF k \in KeySet(d)
    THEN [i \in 1..Len(d) |-> IF d[i].key = k THEN [key |-> k, val |-> v] ELSE d[i]]
    ELSE <<[key |-> k, val |-> v]>> \o d

DictSetKeepFirst(d, k, v) ==
    IF k \in KeySet(d) THEN d ELSE Append(d, [key |-> k, val |-> v])

DictSetOnlyLast(d, k, v) == <<[key |-> k, val |-> v]>>

\* d[k] = v on a Python dict: a present key keeps its position, a new key goes last
DictSet(d, k, v) ==
    IF k \in KeySet(d)
    THEN [i \in 1..Len(d) |-> IF d[i].key = k THEN [key |-> k, val |-> v] ELSE d[i]]
    ELSE Append(d, [key |-> k, val |-> v])

\* ------------------------------------------------------------------ paths
\* str.rfind(".") on the name, 1-based; 0 when there is none
RFindDot(name) ==
    IF \E i \in 1..Len(name) : name[i] = "."
    THEN CHOOSE i \in 1..Len(name) :
            name[i] = "." /\ \A j \in (i+1)..Len(name) : name[j] # "."
    ELSE 0

\* PurePath.suffix: the part from the last dot, if that dot is neither first nor last
Suffix(name) ==
    LET i == RFindDot(name)
    IN  IF 1 < i /\ i < Len(name) THEN SubSeq(name, i, Len(name)) ELSE <<>>

\* PurePath.with_suffix("." + ext): an existing suffix is replaced, else ext is added
WithSuffix(name, ext) ==
    SubSeq(name, 1, Len(name) - Len(Suffix(name))) \o <<".", ext>>

\* ------------------------------------------------------------------- JSON
\* A Python value: t is its type, s the text of a leaf, keys/items the parts of a
\* container (keys for a dict only).
PyLeaf(t, x) == [t |-> t, s |-> x, keys |-> <<>>, items |-> <<>>]

PyList(xs) == [t |-> "list", s |-> "", keys |-> <<>>, items |-> xs]

PyTuple(xs) == [t |-> "tuple", s |-> "", keys |-> <<>>, items |-> xs]

PyDict(ks, xs) == [t |-> "dict", s |-> "", keys |-> ks, items |-> xs]

\* A JSON text, as its syntax tree: an object's keys are strings and may repeat
JLeaf(t, x) == [t |-> t, s |-> x, keys |-> <<>>, items |-> <<>>]

JArray(xs) == [t |-> "array", s |-> "", keys |-> <<>>, items |-> xs]

JObject(ks, xs) == [t |-> "object", s |-> "", keys |-> ks, items |-> xs]

\* json.dumps on a dict key: str stays, int, bool and None are turned into text
KeyText(k) ==
    CASE k.t = "bool" -> IF k.s = "True" THEN "true" ELSE "false"
      [] k.t = "none" -> "null"
      [] OTHER -> k.s

RECURSIVE DumpsEmptyAsNull(_)
DumpsEmptyAsNull(v) ==
    CASE v.t = "str" -> JLeaf("string", v.s)
      [] v.t = "int" -> JLeaf("number", v.s)
      [] v.t = "bool" -> JLeaf("literal", IF v.s = "True" THEN "true" ELSE "false")
      [] v.t = "none" -> JLeaf("literal", "null")
      [] v.t \in {"list", "tuple"} ->
            JArray([i \in 1..Len(v.items) |-> DumpsEmptyAsNull(v.items[i])])
      [] v.t = "dict" ->
            IF v.items = <<>> THEN JLeaf("literal", "null")
            ELSE JObject([i \in 1..Len(v.keys) |-> KeyText(v.keys[i])],
                         [i \in 1..Len(v.items) |-> DumpsEmptyAsNull(v.items[i])])

\* json.dumps(value, indent=2), as the syntax tree of the text it produces: lists and
\* tuples both become arrays, every dict key becomes a string
RECURSIVE Dumps(_)
Dumps(v) ==
    CASE v.t = "str" -> JLeaf("string", v.s)
      [] v.t = "int" -> JLeaf("number", v.s)
      [] v.t = "bool" -> JLeaf("literal", IF v.s = "True" THEN "true" ELSE "false")
      [] v.t = "none" -> JLeaf("literal", "null")
      [] v.t \in {"list", "tuple"} ->
            JArray([i \in 1..Len(v.items) |-> Dumps(v.items[i])])
      [] v.t = "dict" ->
            JObject([i \in 1..Len(v.keys) |-> KeyText(v.keys[i])],
                    [i \in 1..Len(v.items) |-> Dumps(v.items[i])])

\* the dict json.load builds from an object's first n members: a repeated key keeps
\* its first position and takes the later value
RECURSIVE MembersToDict(_, _, _)
MembersToDict(ks, xs, n) ==
    IF n = 0 THEN PyDict(<<>>, <<>>)
    ELSE LET d == MembersToDict(ks, xs, n - 1)
             k == PyLeaf("str", ks[n])
         IN  IF \E i \in 1..Len(d.keys) : d.keys[i] = k
             THEN PyDict(d.keys,
                         [i \in 1..Len(d.items) |->
                             IF d.keys[i] = k THEN xs[n] ELSE d.items[i]])
             ELSE PyDict(Append(d.keys, k), Append(d.items, xs[n]))

\* json.load: the Python value of a JSON text
RECURSIVE Loads(_)
Loads(j) ==
    CASE j.t = "string" -> PyLeaf("str", j.s)
      [] j.t = "number" -> PyLeaf("int", j.s)
      [] j.t = "literal" ->
            IF j.s = "null" THEN PyLeaf("none", "None")
            ELSE PyLeaf("bool", IF j.s = "true" THEN "True" ELSE "False")
      [] j.t = "array" -> PyList([i \in 1..Len(j.items) |-> Loads(j.items[i])])
      [] j.t = "object" ->
            MembersToDict(j.keys, [i \in 1..Len(j.items) |-> Loads(j.items[i])],
                          Len(j.items))

\* Python's == on two values: dicts compare as mappings (order of keys ignored),
\* lists and tuples position by position, a list never equals a tuple
RECURSIVE PyEq(_, _)
PyEq(a, b) ==
    /\ a.t = b.t
    /\ a.s = b.s
    /\ Len(a.items) = Len(b.items)
    /\ IF a.t = "dict"
       THEN /\ Range(a.keys) = Range(b.keys)
            /\ \A i \in 1..Len(a.keys) : \A j \in 1..Len(b.keys) :
                  a.keys[i] = b.keys[j] => PyEq(a.items[i], b.items[j])
       ELSE \A i \in 1..Len(a.items) : PyEq(a.items[i], b.items[i])

\* a unit's value and the results document as Python values
UnitValueToPy(v) ==
    PyDict(<<PyLeaf("str", "unit"), PyLeaf("str", "shape")>>, <<PyLeaf("int", ToString(v.by)), PyLeaf("str", v.shape)>>)

ToPy(doc) ==
    PyDict([i \in 1..Len(doc) |-> PyLeaf("str", doc[i].key)],
           [i \in 1..Len(doc) |-> UnitValueToPy(doc[i].val)])

\* ------------------------------------------------------------ generate, pure
SUPPORTED_FORMATS_Wide ==
    {"json", "html", "md", "pdf", "docx", "invalid_format"}

SUPPORTED_FORMATS == {"json", "html", "md", "pdf", "docx"}

EffectiveFormatsNoneOnly(f) == IF ~f.given THEN <<"json", "html">> ELSE f.ids

\* "if not formats: formats = [json, html]"
EffectiveFormats(f) == IF ~f.given \/ f.ids = <<>> THEN <<"json", "html">> ELSE f.ids

UnsupportedIgnored(ids) == Range(ids) \ Range(ids)

Unsupported(ids) == Range(ids) \ SUPPORTED_FORMATS

RequestedOrHtml(fmt, ids) == fmt = "html" \/ fmt \in Range(ids)

\* "<fmt>" in formats
Requested(fmt, ids) == fmt \in Range(ids)

\* the markdown section reads every unit's mapping with .get and iterates its issues:
\* an entry that is no mapping raises AttributeError
MdRaises(doc) == \E i \in 1..Len(doc) : doc[i].val.shape = "odd"

BackendOutcomes == {"ok", "unavailable", "fail"}

\* what a backend does is a fact of the installation and of the document: the
\* import works or not, the document renders or not; once seen it stays
BackendBehaviour(seen) == IF seen = "none" THEN BackendOutcomes ELSE {seen}

\* a PDF/DOCX file is produced when the backend imports, renders and can write
BackendWrites(out, w) == out = "ok" /\ w

\* results.get(key, {}): the shape of the unit's mapping, "missing" for the default {}
SectionShape(doc, key) ==
    IF key \in KeySet(doc)
    THEN doc[CHOOSE i \in 1..Len(doc) : doc[i].key = key].val.shape
    ELSE "missing"

\* md_parts: the title, then per section its heading and either what the unit
\* reported or the line that says there is nothing ("if parser:", "if perf and
\* perf.get('count', 0):", "if sec and sec.get('count', 0):")
MdParts(doc) ==
    <<"# Codebase Analysis Report",
      "## Parser Results",
      IF SectionShape(doc, "parser_results") # "missing"
      THEN "parser metrics"
      ELSE "No parser results available.",
      "## Performance Issues",
      IF SectionShape(doc, "performance_issues") = "std"
      THEN "performance issue lines"
      ELSE "No significant performance issues detected.",
      "## Security Findings",
      IF SectionShape(doc, "security_findings") = "std"
      THEN "security finding lines"
      ELSE "No critical security findings detected.">>

NoJson == JLeaf("none", "")

\* what one rendering of doc in format fmt puts into the file
Render(fmt, doc) ==
    [fmt |-> fmt, doc |-> doc,
     text |-> IF fmt = "md" THEN MdParts(doc) ELSE <<>>,
     json |-> IF fmt = "json" THEN Dumps(ToPy(doc)) ELSE NoJson]

Event(e, u, p, f) == [ev |-> e, unit |-> u, path |-> p, fmt |-> f]

WriteFileAppending(p, fmt) ==
    /\ fs' = (p :> ((IF p \in DOMAIN fs THEN fs[p] ELSE <<>>)
                        \o <<Render(fmt, gen_args.results)>>)) @@ fs
    /\ log' = Append(log, Event("write", 0, p, fmt))
    /\ written' = Append(written, p)

\* write_text / pdf.output / document.save on path p: the file is replaced; a
\* file's content is the sequence of renderings it holds
WriteFile(p, fmt) ==
    /\ fs' = (p :> <<Render(fmt, gen_args.results)>>) @@ fs
    /\ log' = Append(log, Event("write", 0, p, fmt))
    /\ written' = Append(written, p)

Raise(e) ==
    /\ pc' = "raised"
    /\ exc' = e

\* ------------------------------------------------------------------- Init
\* the state outside run and generate, when nothing has happened there
GenIdle ==
    /\ caller = "run"
    /\ first_ret = NoReturn

NoData == PyLeaf("unset", "")

JsonIdle ==
    /\ j_results = NoData
    /\ j_text = NoJson
    /\ j_data = NoData

NotRun == [unit |-> "", status |-> "none", exc |-> "", summary |-> "", cve |-> "",
           bigquery |-> ""]

UnitsIdle ==
    /\ env = <<>>
    /\ unit_run = NotRun

NoRequest == [repo_url |-> [present |-> FALSE, text |-> <<>>],
              output |-> [present |-> FALSE, text |-> <<>>],
              formats |-> [kind |-> "absent", ids |-> <<>>]]

NoTmp == [created |-> 0, cleanups |-> 0]

NoResponse == [status |-> 0, error |-> "", results |-> <<>>, report_files |-> <<>>]

ApiIdle ==
    /\ request = NoRequest
    /\ api_pc = "none"
    /\ tmp_repo_ctx = NoTmp
    /\ clones = <<>>
    /\ orchestrators = 0
    /\ response = NoResponse

NoDownload == [status |-> 0, path |-> <<>>]

DlIdle ==
    /\ dl_filename = <<>>
    /\ dl_response = NoDownload

InnerIdle ==
    /\ py_files = <<>>
    /\ file_idx = 0
    /\ findings = <<>>
    /\ attempt = 0
    /\ calls = <<>>
    /\ sleeps = <<>>
    /\ inner_pc = "none"
    /\ inner_ret = <<>>

ParIdle ==
    /\ handlers = <<>>
    /\ report_dir = <<>>

ExtIdle ==
    /\ GenIdle
    /\ JsonIdle
    /\ UnitsIdle
    /\ ApiIdle
    /\ DlIdle
    /\ InnerIdle
    /\ ParIdle

\* nothing registered, nothing run, nothing written
CoreInit ==
    /\ agents = <<>>
    /\ writable \in BOOLEAN
    /\ pc = "idle"
    /\ output_path = <<>>
    /\ formats = None
    /\ idx = 0
    /\ results = <<>>
    /\ gen_calls = 0
    /\ gen_args = NoArgs
    /\ eff_formats = <<>>
    /\ html_content = FALSE
    /\ written = <<>>
    /\ pdf_outcome = "none"
    /\ docx_outcome = "none"
    /\ fs = <<>>
    /\ log = <<>>
    /\ gen_ret = NoReturn
    /\ ret = NoReturn
    /\ exc = NoExc
    /\ unit_vals = <<>>

Init ==
    /\ CoreInit
    /\ ExtIdle


\* ------------------------------------------------------------ Orchestrator
\* register_agent: instantiate the unit and append it
RegisterAgent ==
    /\ pc = "idle"
    /\ Len(agents) < MaxAgents
    /\ \E n \in UnitNames : agents' = Append(agents, n)
    /\ UNCHANGED <<writable, pc, output_path, formats, idx, results, gen_calls,
                   gen_args, eff_formats, html_content, written, pdf_outcome,
                   docx_outcome, fs, log, gen_ret, ret, exc>>
    /\ UNCHANGED <<unit_vals, extVars>>

\* run is entered: results = {}
RunCall ==
    /\ pc = "idle"
    /\ \E p \in BasePaths, f \in FormatChoices :
          /\ output_path' = p
          /\ formats' = f
    /\ results' = <<>>
    /\ idx' = 0
    /\ pc' = "agents"
    /\ UNCHANGED <<agents, writable, gen_calls, gen_args, eff_formats,
                   html_content, written, pdf_outcome, docx_outcome, fs, log,
                   gen_ret, ret, exc>>
    /\ UNCHANGED <<unit_vals, extVars>>

AgentsLeftSkipLast(i, as) == i < Len(as) - 1

\* "for agent in self.agents": there is a next unit
AgentsLeft(i, as) == i < Len(as)

UnitRaisedSwallowed(k) ==
    /\ results' = DictSet(results, agents[k], [by |-> k, shape |-> "std"])
    /\ unit_vals' = Append(unit_vals, [by |-> k, shape |-> "std"])
    /\ idx' = k
    /\ UNCHANGED <<pc, exc>>

\* agent.run() raises: nothing in run catches it
UnitRaised(k) ==
    /\ Raise([type |-> "UnitError", ids |-> {}, unit |-> k])
    /\ UNCHANGED <<idx, results, unit_vals>>

\* results[agent.name] = agent.run()
UnitReturned(k, v) ==
    /\ results' = DictSet(results, agents[k], v)
    /\ unit_vals' = Append(unit_vals, v)
    /\ idx' = k
    /\ UNCHANGED <<pc, exc>>

\* one iteration of the loop over self.agents
RunAgent ==
    /\ pc = "agents"
    /\ AgentsLeft(idx, agents)
    /\ LET k == idx + 1
       IN  \E out \in Shapes \cup {"raise"} :
              IF out = "raise"
              THEN /\ UnitRaised(k)
                   /\ log' = log \o <<Event("run", k, <<>>, ""),
                                      Event("raise", k, <<>>, "")>>
              ELSE /\ UnitReturned(k, [by |-> k, shape |-> out])
                   /\ log' = Append(log, Event("run", k, <<>>, ""))
    /\ UNCHANGED <<agents, writable, output_path, formats, gen_calls, gen_args,
                   eff_formats, html_content, written, pdf_outcome,
                   docx_outcome, fs, gen_ret, ret>>
    /\ UNCHANGED extVars

GenerateArgsDefaulted(p, r, f) ==
    [base_path |-> p, results |-> r, formats |-> List(EffectiveFormats(f))]

\* generator.generate(output_path, results, formats=formats)
GenerateArgs(p, r, f) == [base_path |-> p, results |-> r, formats |-> f]

InvokeGenerateUnlessEmpty ==
    /\ pc = "agents"
    /\ ~AgentsLeft(idx, agents)
    /\ IF results = <<>>
       THEN /\ pc' = "run_return"
            /\ UNCHANGED <<gen_calls, gen_args, log>>
       ELSE /\ gen_calls' = gen_calls + 1
            /\ gen_args' = GenerateArgs(output_path, results, formats)
            /\ log' = Append(log, Event("generate", 0, <<>>, ""))
            /\ pc' = "gen_validate"
    /\ UNCHANGED <<agents, writable, output_path, formats, idx, results,
                   eff_formats, html_content, written, pdf_outcome,
                   docx_outcome, fs, gen_ret, ret, exc>>
    /\ UNCHANGED <<unit_vals, extVars>>

\* the loop is over: the generator is built and generate is entered
InvokeGenerate ==
    /\ pc = "agents"
    /\ ~AgentsLeft(idx, agents)
    /\ gen_calls' = gen_calls + 1
    /\ gen_args' = GenerateArgs(output_path, results, formats)
    /\ log' = Append(log, Event("generate", 0, <<>>, ""))
    /\ pc' = "gen_validate"
    /\ UNCHANGED <<agents, writable, output_path, formats, idx, results,
                   eff_formats, html_content, written, pdf_outcome,
                   docx_outcome, fs, gen_ret, ret, exc>>
    /\ UNCHANGED <<unit_vals, extVars>>

\* --------------------------------------------------------- ReportGenerator
\* defaulting and validation of the identifiers; written = []
GenValidate ==
    /\ pc = "gen_validate"
    /\ eff_formats' = EffectiveFormats(gen_args.formats)
    /\ written' = <<>>
    /\ IF Unsupported(eff_formats') # {}
       THEN Raise([type |-> "ValueError", ids |-> Unsupported(eff_formats'), unit |-> 0])
       ELSE pc' = "gen_json" /\ UNCHANGED exc
    /\ UNCHANGED <<agents, writable, output_path, formats, idx, results,
                   gen_calls, gen_args, html_content, pdf_outcome, docx_outcome,
                   fs, log, gen_ret, ret>>
    /\ UNCHANGED <<unit_vals, extVars>>

OSError == [type |-> "OSError", ids |-> {}, unit |-> 0]

\* a text artifact: write_text raises when the directory cannot be written
WriteText(fmt, next) ==
    IF writable
    THEN /\ WriteFile(WithSuffix(gen_args.base_path, fmt), fmt)
         /\ pc' = next
         /\ UNCHANGED exc
    ELSE /\ Raise(OSError)
         /\ UNCHANGED <<fs, log, written>>

\* json.dumps of the document (JSON-safe here: the units' values are plain mappings)
\* and write_text of it
GenJson ==
    /\ pc = "gen_json"
    /\ IF Requested("json", eff_formats)
       THEN WriteText("json", "gen_html")
       ELSE pc' = "gen_html" /\ UNCHANGED <<fs, log, written, exc>>
    /\ UNCHANGED <<agents, writable, output_path, formats, idx, results,
                   gen_calls, gen_args, eff_formats, html_content, pdf_outcome,
                   docx_outcome, gen_ret, ret>>
    /\ UNCHANGED <<unit_vals, extVars>>

\* the template is rendered in every call; the file is written on request only
GenHtml ==
    /\ pc = "gen_html"
    /\ \E rendered \in BOOLEAN :
          IF ~rendered
          THEN /\ Raise([type |-> "TemplateError", ids |-> {}, unit |-> 0])
               /\ UNCHANGED <<html_content, fs, log, written>>
          ELSE /\ html_content' = TRUE
               /\ IF Requested("html", eff_formats)
                  THEN WriteText("html", "gen_md")
                  ELSE pc' = "gen_md" /\ UNCHANGED <<fs, log, written, exc>>
    /\ UNCHANGED <<agents, writable, output_path, formats, idx, results,
                   gen_calls, gen_args, eff_formats, pdf_outcome, docx_outcome,
                   gen_ret, ret>>
    /\ UNCHANGED <<unit_vals, extVars>>

GenMd ==
    /\ pc = "gen_md"
    /\ IF Requested("md", eff_formats)
       THEN IF MdRaises(gen_args.results)
            THEN /\ Raise([type |-> "AttributeError", ids |-> {}, unit |-> 0])
                 /\ UNCHANGED <<fs, log, written>>
            ELSE WriteText("md", "gen_pdf")
       ELSE pc' = "gen_pdf" /\ UNCHANGED <<fs, log, written, exc>>
    /\ UNCHANGED <<agents, writable, output_path, formats, idx, results,
                   gen_calls, gen_args, eff_formats, html_content, pdf_outcome,
                   docx_outcome, gen_ret, ret>>
    /\ UNCHANGED <<unit_vals, extVars>>

BackendSkippedListed(p) ==
    /\ written' = Append(written, p)
    /\ UNCHANGED <<fs, log>>

\* "except Exception": a warning is logged and the format is left out
BackendSkipped(p) == UNCHANGED <<fs, log, written>>

\* a format with an optional backend, inside try/except
BackendFormat(fmt, out) ==
    IF BackendWrites(out, writable)
    THEN WriteFile(WithSuffix(gen_args.base_path, fmt), fmt)
    ELSE BackendSkipped(WithSuffix(gen_args.base_path, fmt))

GenPdf ==
    /\ pc = "gen_pdf"
    /\ IF Requested("pdf", eff_formats)
       THEN \E out \in BackendBehaviour(pdf_outcome) :
               /\ pdf_outcome' = out
               /\ BackendFormat("pdf", out)
       ELSE UNCHANGED <<pdf_outcome, fs, log, written>>
    /\ pc' = "gen_docx"
    /\ UNCHANGED <<agents, writable, output_path, formats, idx, results,
                   gen_calls, gen_args, eff_formats, html_content,
                   docx_outcome, gen_ret, ret, exc>>
    /\ UNCHANGED <<unit_vals, extVars>>

GenDocx ==
    /\ pc = "gen_docx"
    /\ IF Requested("docx", eff_formats)
       THEN \E out \in BackendBehaviour(docx_outcome) :
               /\ docx_outcome' = out
               /\ BackendFormat("docx", out)
       ELSE UNCHANGED <<docx_outcome, fs, log, written>>
    /\ pc' = "gen_return"
    /\ UNCHANGED <<agents, writable, output_path, formats, idx, results,
                   gen_calls, gen_args, eff_formats, html_content,
                   pdf_outcome, gen_ret, ret, exc>>
    /\ UNCHANGED <<unit_vals, extVars>>

\* "return written"
GenReturn ==
    /\ pc = "gen_return"
    /\ gen_ret' = [returned |-> TRUE, doc |-> written]
    /\ pc' = IF caller = "run" THEN "run_return" ELSE "gen_returned"
    /\ UNCHANGED <<agents, writable, output_path, formats, idx, results,
                   gen_calls, gen_args, eff_formats, html_content, written,
                   pdf_outcome, docx_outcome, fs, log, ret, exc>>
    /\ UNCHANGED <<unit_vals, extVars>>

\* "return results"
RunReturn ==
    /\ pc = "run_return"
    /\ ret' = [returned |-> TRUE, doc |-> results]
    /\ pc' = "done"
    /\ UNCHANGED <<agents, writable, output_path, formats, idx, results,
                   gen_calls, gen_args, eff_formats, html_content, written,
                   pdf_outcome, docx_outcome, fs, log, gen_ret, exc>>
    /\ UNCHANGED <<unit_vals, extVars>>

Next ==
    \/ RegisterAgent
    \/ RunCall
    \/ RunAgent
    \/ InvokeGenerate
    \/ GenValidate
    \/ GenJson
    \/ GenHtml
    \/ GenMd
    \/ GenPdf
    \/ GenDocx
    \/ GenReturn
    \/ RunReturn

Spec == Init /\ [][Next]_vars

\* ------------------------------------------- generate called on its own, twice
\* documents handed to generate directly: empty, or one unit's mapping
Docs ==
    {<<>>} \cup {<<[key |-> n, val |-> [by |-> 1, shape |-> sh]]>> :
                    n \in UnitNames, sh \in Shapes}

InitGen ==
    /\ CoreInit
    /\ caller = "direct"
    /\ first_ret = NoReturn
    /\ JsonIdle
    /\ UnitsIdle
    /\ ApiIdle
    /\ DlIdle
    /\ InnerIdle
    /\ ParIdle

\* ReportGenerator().generate(base_path, results, formats)
GenCall ==
    /\ pc = "idle"
    /\ \E p \in BasePaths, d \in Docs, f \in FormatChoices :
          gen_args' = GenerateArgs(p, d, f)
    /\ gen_calls' = gen_calls + 1
    /\ log' = Append(log, Event("generate", 0, <<>>, ""))
    /\ pc' = "gen_validate"
    /\ UNCHANGED <<agents, writable, output_path, formats, idx, results,
                   eff_formats, html_content, written, pdf_outcome,
                   docx_outcome, fs, gen_ret, ret, exc>>
    /\ UNCHANGED <<unit_vals, extVars>>

\* the same call once more: same base path, same document, same formats; the
\* locals of generate are fresh, the files of the first call are still there
GenAgain ==
    /\ pc = "gen_returned"
    /\ first_ret = NoReturn
    /\ first_ret' = gen_ret
    /\ gen_ret' = NoReturn
    /\ eff_formats' = <<>>
    /\ html_content' = FALSE
    /\ written' = <<>>
    /\ gen_calls' = gen_calls + 1
    /\ log' = Append(log, Event("generate", 0, <<>>, ""))
    /\ pc' = "gen_validate"
    /\ UNCHANGED <<agents, writable, output_path, formats, idx, results,
                   gen_args, pdf_outcome, docx_outcome, fs, ret, exc>>
    /\ UNCHANGED <<unit_vals, caller, jsonVars, unitVars, apiVars, dlVars, innerVars, parVars>>

NextGen ==
    \/ GenCall
    \/ GenAgain
    \/ GenValidate
    \/ GenJson
    \/ GenHtml
    \/ GenMd
    \/ GenPdf
    \/ GenDocx
    \/ GenReturn

SpecGen == InitGen /\ [][NextGen]_vars

\* ----------------------------------------- the .json artifact, written and read
PyAtoms ==
    {PyLeaf("str", "a"), PyLeaf("str", ""), PyLeaf("int", "1"),
     PyLeaf("bool", "True"), PyLeaf("none", "None")}

PyKeys == {PyLeaf("str", "a"), PyLeaf("str", "1"), PyLeaf("int", "1")}

\* values one level deep: leaves, lists, a tuple, mappings
PyInner ==
    PyAtoms
    \cup {PyList(<<>>), PyDict(<<>>, <<>>), PyTuple(<<PyLeaf("int", "1")>>)}
    \cup {PyList(<<a>>) : a \in PyAtoms}
    \cup {PyDict(<<k>>, <<a>>) : k \in PyKeys, a \in PyAtoms}

\* the documents handed to generate: {} , one key, two keys
JsonDocs ==
    {PyDict(<<>>, <<>>)}
    \cup {PyDict(<<k>>, <<v>>) : k \in PyKeys, v \in PyInner}
    \cup {PyDict(<<k[1], k[2]>>, <<PyLeaf("int", "1"), v>>) :
             k \in {kk \in PyKeys \X PyKeys : kk[1] # kk[2]}, v \in PyInner}

InitJson ==
    /\ CoreInit
    /\ GenIdle
    /\ j_results \in JsonDocs
    /\ j_text = NoJson
    /\ j_data = NoData
    /\ UnitsIdle
    /\ ApiIdle
    /\ DlIdle
    /\ InnerIdle
    /\ ParIdle

\* json_path.write_text(json.dumps(results, indent=2))
JsonWrite ==
    /\ j_text = NoJson
    /\ j_text' = Dumps(j_results)
    /\ UNCHANGED <<coreVars, genVars, unitVars, apiVars, dlVars, innerVars, parVars, j_results, j_data>>

\* json.load of the file
JsonRead ==
    /\ j_text # NoJson
    /\ j_data = NoData
    /\ j_data' = Loads(j_text)
    /\ UNCHANGED <<coreVars, genVars, unitVars, apiVars, dlVars, innerVars, parVars, j_results, j_text>>

NextJson ==
    \/ JsonWrite
    \/ JsonRead

SpecJson == InitJson /\ [][NextJson]_vars

\* ------------------------------------------- the built-in units, one run each
\* the surroundings of a run: which credentials are set, which SDKs are installed,
\* which services answer, what the repository holds
Environments ==
    [api_key : BOOLEAN, genai : BOOLEAN, project : BOOLEAN, aiplatform : BOOLEAN,
     gemini_up : BOOLEAN, files : BOOLEAN, insecure : BOOLEAN, nvd_key : BOOLEAN,
     allow_stub : BOOLEAN, nvd_up : BOOLEAN, bq_up : BOOLEAN]

\* CodeUnderstandingTool._determine_mode: the SDK to use, "raise" for RuntimeError
DetermineMode(e) ==
    IF e.api_key /\ e.genai THEN "google_ai"
    ELSE IF e.project /\ e.aiplatform THEN "vertex_ai"
    ELSE "raise"

\* CodeUnderstandingTool.analyze_code: three attempts, then an error-shaped mapping
AnalyzeCode(e) ==
    IF ~e.files THEN "nothing_to_analyze"
    ELSE IF e.gemini_up THEN "summary"
    ELSE "error"

\* CVEChecker.search: "raise" for RuntimeError
CveSearch(e) ==
    IF ~e.nvd_key
    THEN IF e.allow_stub THEN "empty" ELSE "raise"
    ELSE IF e.nvd_up THEN "results"
    ELSE IF e.allow_stub THEN "empty" ELSE "raise"

\* BigQueryTool: no project, no library or no client gives the error-shaped mapping
BigQueryAnswer(e) == IF e.project /\ e.bq_up THEN "data" ELSE "error"

InitUnits ==
    /\ CoreInit
    /\ GenIdle
    /\ JsonIdle
    /\ env \in Environments
    /\ unit_run = NotRun
    /\ ApiIdle
    /\ DlIdle
    /\ InnerIdle
    /\ ParIdle

\* ParserAgent.run: the tool is constructed and asked, nothing is caught
ParserAgentRun ==
    /\ unit_run = NotRun
    /\ unit_run' =
          IF DetermineMode(env) = "raise"
          THEN [NotRun EXCEPT !.unit = "parser_results", !.status = "raised",
                              !.exc = "RuntimeError"]
          ELSE [NotRun EXCEPT !.unit = "parser_results", !.status = "returned",
                              !.summary = AnalyzeCode(env)]
    /\ UNCHANGED <<coreVars, genVars, jsonVars, apiVars, dlVars, innerVars, parVars, env>>

\* SecurityAgent.run: the lookup is inside try/except, BigQueryTool never raises
SecurityAgentRun ==
    /\ unit_run = NotRun
    /\ unit_run' =
          [NotRun EXCEPT !.unit = "security_findings", !.status = "returned",
                         !.cve = IF ~(env.files /\ env.insecure) THEN "not_asked"
                                 ELSE IF CveSearch(env) = "raise" THEN "empty"
                                 ELSE CveSearch(env),
                         !.bigquery = BigQueryAnswer(env)]
    /\ UNCHANGED <<coreVars, genVars, jsonVars, apiVars, dlVars, innerVars, parVars, env>>

\* PerformanceAgent.run: calls no collaborator
PerformanceAgentRun ==
    /\ unit_run = NotRun
    /\ unit_run' = [NotRun EXCEPT !.unit = "performance_issues",
                                  !.status = "returned"]
    /\ UNCHANGED <<coreVars, genVars, jsonVars, apiVars, dlVars, innerVars, parVars, env>>

NextUnits ==
    \/ ParserAgentRun
    \/ SecurityAgentRun
    \/ PerformanceAgentRun

SpecUnits == InitUnits /\ [][NextUnits]_vars

\* ------------------------------------------------------- POST /analyze (api.py)
\* A repo_url is a sequence of tokens, the scheme prefix being the first.  The
\* formats of a request are absent, a list of identifiers, or one string, whose
\* tokens are identifiers, "," and " ".
LocalRepos == {<<"/repo">>}

RepoUrls ==
    {<<>>, <<"/repo">>, <<"/nope">>, <<"https://", "host/repo">>,
     <<"http://", "host/repo">>, <<"git@", "host:repo">>, <<"ftp://", "host/repo">>}

Requests ==
    [repo_url : {[present |-> FALSE, text |-> <<>>]}
                  \cup {[present |-> TRUE, text |-> u] : u \in RepoUrls},
     output : {[present |-> FALSE, text |-> <<>>],
               [present |-> TRUE, text |-> <<"report", ".", "v2">>]},
     formats : {[kind |-> "absent", ids |-> <<>>],
                [kind |-> "list", ids |-> <<"json">>],
                [kind |-> "list", ids |-> <<"pdf", "md">>],
                [kind |-> "list", ids |-> <<>>],
                [kind |-> "list", ids |-> <<"invalid_format">>],
                [kind |-> "string", ids |-> <<"json", ",", " ", "html", ",">>]}]

SupportedProtocolOrFtp(url) ==
    url # <<>> /\ url[1] \in {"https://", "http://", "git@", "ftp://"}

\* repo_url.startswith(("https://", "http://", "git@"))
SupportedProtocol(url) == url # <<>> /\ url[1] \in {"https://", "http://", "git@"}

\* str.split(","): the pieces between the commas
RECURSIVE SplitComma(_)
SplitComma(t) ==
    IF \E i \in 1..Len(t) : t[i] = ","
    THEN LET i == CHOOSE k \in 1..Len(t) :
                     t[k] = "," /\ \A m \in 1..(k - 1) : t[m] # ","
         IN  <<SubSeq(t, 1, i - 1)>> \o SplitComma(SubSeq(t, i + 1, Len(t)))
    ELSE <<t>>

\* str.strip(): blanks at both ends removed
Strip(t) ==
    LET solid == {i \in 1..Len(t) : t[i] # " "}
    IN  IF solid = {} THEN <<>>
        ELSE SubSeq(t, CHOOSE i \in solid : \A j \in solid : i <= j,
                       CHOOSE i \in solid : \A j \in solid : i >= j)

\* [f.strip() for f in formats.split(',') if f.strip()]; a piece of several tokens
\* is a text that is no identifier
SplitFormats(t) ==
    LET pieces == SplitComma(t)
        kept   == SelectSeq([i \in 1..Len(pieces) |-> Strip(pieces[i])],
                            LAMBDA q : q # <<>>)
    IN  [i \in 1..Len(kept) |->
            IF Len(kept[i]) = 1 THEN kept[i][1] ELSE "invalid_format"]

\* formats = data.get("formats", [all five]); a string is split
ApiFormats(f) ==
    CASE f.kind = "absent" -> <<"json", "html", "md", "pdf", "docx">>
      [] f.kind = "string" -> SplitFormats(f.ids)
      [] OTHER -> f.ids

\* REPORT_DIR / f"{uuid.uuid4().hex}-{output_base}", as the name inside REPORT_DIR
UniqueBase(o) == <<"uuid", "-">> \o (IF o.present THEN o.text ELSE <<"report">>)

\* [f"{unique_base.name}.{ext}" for ext in formats if (REPORT_DIR / ...).exists()]
ReportFiles(base, ids, files) ==
    LET there == SelectSeq(ids, LAMBDA ext : (base \o <<".", ext>>) \in files)
    IN  [i \in 1..Len(there) |-> base \o <<".", there[i]>>]

\* tmp_repo_ctx.cleanup()
Cleanup(t) == [t EXCEPT !.cleanups = @ + 1]

Respond(code, msg) == [NoResponse EXCEPT !.status = code, !.error = msg]

InitApi ==
    /\ CoreInit
    /\ GenIdle
    /\ JsonIdle
    /\ UnitsIdle
    /\ DlIdle
    /\ InnerIdle
    /\ ParIdle
    /\ request \in Requests
    /\ api_pc = "check_repo_url"
    /\ tmp_repo_ctx = NoTmp
    /\ clones = <<>>
    /\ orchestrators = 0
    /\ response = NoResponse

\* repo_url = data.get("repo_url"); if not repo_url: 400
ApiCheckRepoUrl ==
    /\ api_pc = "check_repo_url"
    /\ IF ~request.repo_url.present \/ request.repo_url.text = <<>>
       THEN /\ response' = Respond(400, "repo_url is required")
            /\ api_pc' = "responded"
       ELSE /\ api_pc' = "locate_repo"
            /\ UNCHANGED response
    /\ UNCHANGED <<coreVars, genVars, jsonVars, unitVars, dlVars, innerVars, parVars, request,
                   tmp_repo_ctx, clones, orchestrators>>

\* an existing local path is used as it is; otherwise the protocol is checked and
\* the temporary directory is created
ApiLocateRepo ==
    /\ api_pc = "locate_repo"
    /\ IF request.repo_url.text \in LocalRepos
       THEN /\ api_pc' = "orchestrate"
            /\ UNCHANGED <<response, tmp_repo_ctx>>
       ELSE IF ~SupportedProtocol(request.repo_url.text)
            THEN /\ response' = Respond(400, "Unsupported repo_url protocol")
                 /\ api_pc' = "responded"
                 /\ UNCHANGED tmp_repo_ctx
            ELSE /\ tmp_repo_ctx' = [tmp_repo_ctx EXCEPT !.created = @ + 1]
                 /\ api_pc' = "clone"
                 /\ UNCHANGED response
    /\ UNCHANGED <<coreVars, genVars, jsonVars, unitVars, dlVars, innerVars, parVars, request,
                   clones, orchestrators>>

CloneFailedNoCleanup ==
    /\ response' = Respond(400, "Failed to clone repo")
    /\ api_pc' = "responded"
    /\ UNCHANGED tmp_repo_ctx

\* except Exception: the temporary directory is cleaned up and 400 is returned
CloneFailed ==
    /\ tmp_repo_ctx' = Cleanup(tmp_repo_ctx)
    /\ response' = Respond(400, "Failed to clone repo")
    /\ api_pc' = "responded"

\* Repo.clone_from(repo_url, tmp_repo_ctx.name): it works or it raises
ApiClone ==
    /\ api_pc = "clone"
    /\ \/ /\ clones' = Append(clones, "ok")
          /\ api_pc' = "orchestrate"
          /\ UNCHANGED <<response, tmp_repo_ctx>>
       \/ /\ clones' = Append(clones, "failed")
          /\ CloneFailed
    /\ UNCHANGED <<coreVars, genVars, jsonVars, unitVars, dlVars, innerVars, parVars, request,
                   orchestrators>>

\* the base name and the formats are prepared, the Orchestrator is created, the
\* three built-in units are registered and run is entered
ApiRunOrchestrator ==
    /\ api_pc = "orchestrate"
    /\ pc = "idle"
    /\ orchestrators' = orchestrators + 1
    /\ agents' = <<"parser_results", "security_findings", "performance_issues">>
    /\ output_path' = UniqueBase(request.output)
    /\ formats' = List(ApiFormats(request.formats))
    /\ results' = <<>>
    /\ idx' = 0
    /\ pc' = "agents"
    /\ api_pc' = "running"
    /\ UNCHANGED <<writable, gen_calls, gen_args, eff_formats, html_content,
                   written, pdf_outcome, docx_outcome, fs, log, gen_ret, ret, exc,
                   unit_vals>>
    /\ UNCHANGED <<genVars, jsonVars, unitVars, dlVars, innerVars, parVars, request, tmp_repo_ctx,
                   clones, response>>

\* run returned: report_files is built, the clone is removed, 200 is returned
ApiRespond ==
    /\ api_pc = "running"
    /\ pc = "done"
    /\ response' = [NoResponse EXCEPT
                       !.status = 200,
                       !.results = ret.doc,
                       !.report_files = ReportFiles(output_path, formats.ids,
                                                    DOMAIN fs)]
    /\ tmp_repo_ctx' = IF tmp_repo_ctx.created > 0 THEN Cleanup(tmp_repo_ctx)
                       ELSE tmp_repo_ctx
    /\ api_pc' = "responded"
    /\ UNCHANGED <<coreVars, genVars, jsonVars, unitVars, dlVars, innerVars, parVars, request,
                   clones, orchestrators>>

\* an exception left run: the handler has no try/finally, Flask answers 500
ApiUnhandled ==
    /\ api_pc = "running"
    /\ pc = "raised"
    /\ response' = Respond(500, exc.type)
    /\ api_pc' = "responded"
    /\ UNCHANGED <<coreVars, genVars, jsonVars, unitVars, dlVars, innerVars, parVars, request,
                   tmp_repo_ctx, clones, orchestrators>>

NextApi ==
    \/ ApiCheckRepoUrl
    \/ ApiLocateRepo
    \/ ApiClone
    \/ ApiRunOrchestrator
    \/ RunAgent
    \/ InvokeGenerate
    \/ GenValidate
    \/ GenJson
    \/ GenHtml
    \/ GenMd
    \/ GenPdf
    \/ GenDocx
    \/ GenReturn
    \/ RunReturn
    \/ ApiRespond
    \/ ApiUnhandled

SpecApi == InitApi /\ [][NextApi]_vars

\* ------------------------------------------- GET /download/<filename> (api.py)
\* A path is a sequence of components, a component a sequence of tokens, so that
\* the text of a path can be compared piece by piece ("reports_private" is
\* "reports" followed by "_private").
REPORT_DIR == <<(<<"app">>), (<<"reports">>)>>

DlComponents ==
    {<<"..">>, <<"r.json">>, <<"sub">>, <<"reports">>, <<"reports", "_private">>,
     <<"secret.txt">>}

\* the regular files of the machine
DlFiles ==
    {REPORT_DIR \o <<(<<"r.json">>)>>,
     REPORT_DIR \o <<(<<"sub">>), (<<"r.json">>)>>,
     <<(<<"app">>), (<<"reports", "_private">>), (<<"secret.txt">>)>>,
     <<(<<"app">>), (<<"secret.txt">>)>>,
     <<(<<"secret.txt">>)>>}

Filenames == UNION {[1..n -> DlComponents] : n \in 1..DlMaxDepth}

\* Path.resolve() on an absolute path without symbolic links: ".." steps up, and
\* stays at the root there
RECURSIVE Resolve(_)
Resolve(parts) ==
    IF parts = <<>> THEN <<>>
    ELSE LET up   == Resolve(SubSeq(parts, 1, Len(parts) - 1))
             last == parts[Len(parts)]
         IN  IF last = <<"..">>
             THEN IF up = <<>> THEN <<>> ELSE SubSeq(up, 1, Len(up) - 1)
             ELSE Append(up, last)

\* str(path): every component after a "/"
RECURSIVE StrOf(_)
StrOf(parts) ==
    IF parts = <<>> THEN <<>>
    ELSE StrOf(SubSeq(parts, 1, Len(parts) - 1)) \o <<"/">> \o parts[Len(parts)]

\* str.startswith
StartsWith(text, prefix) ==
    /\ Len(prefix) <= Len(text)
    /\ SubSeq(text, 1, Len(prefix)) = prefix

InitDl ==
    /\ CoreInit
    /\ GenIdle
    /\ JsonIdle
    /\ UnitsIdle
    /\ ApiIdle
    /\ InnerIdle
    /\ ParIdle
    /\ dl_filename \in Filenames
    /\ dl_response = NoDownload

\* download_report: 404 unless the resolved path is a file and its text starts
\* with the text of REPORT_DIR
DownloadReport ==
    /\ dl_response = NoDownload
    /\ LET path == Resolve(REPORT_DIR \o dl_filename)
       IN  dl_response' =
              IF path \notin DlFiles \/ ~StartsWith(StrOf(path), StrOf(REPORT_DIR))
              THEN [status |-> 404, path |-> <<>>]
              ELSE [status |-> 200, path |-> path]
    /\ UNCHANGED <<coreVars, genVars, jsonVars, unitVars, apiVars, innerVars, parVars,
                   dl_filename>>

NextDl == DownloadReport

SpecDl == InitDl /\ [][NextDl]_vars

\* ------------------------------- SecurityAgent._analyze_file_security, per file
\* The text of a file is a sequence of tokens: an occurrence of a name of
\* INSECURE_IMPORTS as a whole word, a piece of text one of SECURITY_PATTERNS
\* matches, or something else.  The source of a regular expression is a sequence of
\* tokens too, "\\s*" being one of them.
INSECURE_IMPORTS ==
    <<"pickle", "subprocess", "os.system", "eval", "exec", "input",
      "urllib.request.urlopen", "ssl._create_unverified_context", "yaml.load",
      "shelve">>

SECURITY_PATTERNS ==
    <<[id |-> "password", re |-> <<"password", "\\s*", "=", "\\s*", "['\"]", "[^'\"]+", "['\"]">>],
      [id |-> "api_key", re |-> <<"api_key", "\\s*", "=", "\\s*", "['\"]", "[^'\"]+", "['\"]">>],
      [id |-> "secret", re |-> <<"secret", "\\s*", "=", "\\s*", "['\"]", "[^'\"]+", "['\"]">>],
      [id |-> "token", re |-> <<"token", "\\s*", "=", "\\s*", "['\"]", "[^'\"]+", "['\"]">>],
      [id |-> "shell", re |-> <<"shell", "\\s*", "=", "\\s*", "True">>],
      [id |-> "random", re |-> <<"random", "\\.", "random", "\\(", "\\)">>],
      [id |-> "md5", re |-> <<"md5", "\\(">>],
      [id |-> "sha1", re |-> <<"sha1", "\\(">>],
      [id |-> "assert", re |-> <<"assert", "\\s+">>],
      [id |-> "DEBUG", re |-> <<"DEBUG", "\\s*", "=", "\\s*", "True">>]>>

SeverityForImportFlat(name) == "MEDIUM"

\* _get_severity_for_import
SeverityForImport(name) ==
    IF name \in {"eval", "exec", "os.system"} THEN "CRITICAL"
    ELSE IF name \in {"pickle", "yaml.load", "ssl._create_unverified_context"}
    THEN "HIGH"
    ELSE "MEDIUM"

\* a regular expression made of literal tokens and "\\s*" matches at the start of
\* text: "\\s*" stands for any number of blanks, every other token for itself
RECURSIVE MatchHere(_, _)
MatchHere(re, text) ==
    IF re = <<>> THEN TRUE
    ELSE IF Head(re) = "\\s*"
    THEN \/ MatchHere(Tail(re), text)
         \/ text # <<>> /\ Head(text) = " " /\ MatchHere(re, Tail(text))
    ELSE text # <<>> /\ Head(text) = Head(re) /\ MatchHere(Tail(re), Tail(text))

\* re.search(re, text)
ReSearch(re, text) ==
    \E i \in 1..(Len(text) + 1) : MatchHere(re, SubSeq(text, i, Len(text)))

\* _get_severity_for_pattern: its argument, the source of a pattern, is searched as
\* text with the expressions of critical_patterns and high_patterns
SeverityForPattern(pattern) ==
    IF \E cp \in {<<"shell", "\\s*", "=", "\\s*", "True">>,
                   <<"DEBUG", "\\s*", "=", "\\s*", "True">>} : ReSearch(cp, pattern)
    THEN "CRITICAL"
    ELSE IF \E hp \in {<<w, "\\s*", "=", "\\s*">> :
                          w \in {"password", "api_key", "secret", "token"}} :
               ReSearch(hp, pattern)
    THEN "HIGH"
    ELSE "MEDIUM"

\* the concatenation of the sequences of a sequence
RECURSIVE Concat(_)
Concat(ss) == IF ss = <<>> THEN <<>> ELSE Head(ss) \o Concat(Tail(ss))

\* the findings of one file: per name of INSECURE_IMPORTS found in the text one
\* finding (a lookup that raises gives cve_matches = []), then per pattern one
\* finding for every match
FileFindings(text, e) ==
    LET names   == SelectSeq(INSECURE_IMPORTS,
                             LAMBDA n : \E i \in 1..Len(text) :
                                           text[i] = [kind |-> "import", of |-> n])
        matches(p) == SelectSeq(text, LAMBDA t : t = [kind |-> "match", of |-> p.id])
    IN  [i \in 1..Len(names) |->
            [issue |-> "Insecure import", of |-> names[i],
             severity |-> SeverityForImport(names[i]),
             cve_matches |-> IF CveSearch(e) = "raise" THEN "empty"
                             ELSE CveSearch(e)]]
        \o Concat([k \in 1..Len(SECURITY_PATTERNS) |->
                     [i \in 1..Len(matches(SECURITY_PATTERNS[k])) |->
                         [issue |-> "pattern", of |-> SECURITY_PATTERNS[k].id,
                          severity |-> SeverityForPattern(SECURITY_PATTERNS[k].re),
                          cve_matches |-> "none"]]])

ScanTokens ==
    {[kind |-> "import", of |-> INSECURE_IMPORTS[i]] : i \in 1..Len(INSECURE_IMPORTS)}
    \cup {[kind |-> "match", of |-> SECURITY_PATTERNS[i].id] :
             i \in 1..Len(SECURITY_PATTERNS)}
    \cup {[kind |-> "other", of |-> "my_input"]}

ScanTexts == UNION {[1..n -> ScanTokens] : n \in 0..MaxTokens}

InitScan ==
    /\ CoreInit
    /\ GenIdle
    /\ JsonIdle
    /\ ApiIdle
    /\ DlIdle
    /\ ParIdle
    /\ env \in {e \in Environments :
                   ~(e.api_key \/ e.genai \/ e.project \/ e.aiplatform
                     \/ e.gemini_up \/ e.bq_up \/ e.insecure) /\ e.files}
    /\ unit_run = NotRun
    /\ py_files \in {<<t>> : t \in ScanTexts}
    /\ file_idx = 0
    /\ findings = <<>>
    /\ attempt = 0
    /\ calls = <<>>
    /\ sleeps = <<>>
    /\ inner_pc = "scan"
    /\ inner_ret = <<>>

\* for file in py_files: findings.extend(self._analyze_file_security(file, ...))
AnalyzeFileSecurity ==
    /\ inner_pc = "scan"
    /\ file_idx < Len(py_files)
    /\ findings' = findings \o FileFindings(py_files[file_idx + 1], env)
    /\ file_idx' = file_idx + 1
    /\ UNCHANGED <<coreVars, genVars, jsonVars, unitVars, apiVars, dlVars, parVars,
                   py_files, attempt, calls, sleeps, inner_pc, inner_ret>>

NextScan == AnalyzeFileSecurity

SpecScan == InitScan /\ [][NextScan]_vars

\* ------------------------------------------------------ PerformanceAgent.run
\* "if lines > 1000"
LargeFileLines == 1000

\* a file as the Performance unit sees it: its number of lines, whether ast.parse
\* accepts it, whether the visitor finds nested loops in it
PerfFiles ==
    [lines : {0, LargeFileLines - 1, LargeFileLines, LargeFileLines + 1,
              2 * LargeFileLines},
     parses : BOOLEAN, nested : BOOLEAN]

IsLargeFileInclusive(lines) == lines >= LargeFileLines

IsLargeFile(lines) == lines > LargeFileLines

InitPerf ==
    /\ CoreInit
    /\ GenIdle
    /\ JsonIdle
    /\ UnitsIdle
    /\ ApiIdle
    /\ DlIdle
    /\ ParIdle
    /\ py_files \in UNION {[1..n -> PerfFiles] : n \in 0..MaxFiles}
    /\ file_idx = 0
    /\ findings = <<>>
    /\ attempt = 0
    /\ calls = <<>>
    /\ sleeps = <<>>
    /\ inner_pc = "perf"
    /\ inner_ret = <<>>

\* one file of the loop: the size test comes first, outside the try; a file that
\* does not parse is skipped after it
PerformanceFile ==
    /\ inner_pc = "perf"
    /\ file_idx < Len(py_files)
    /\ LET k == file_idx + 1
           f == py_files[k]
           large == IF IsLargeFile(f.lines)
                    THEN <<[issue |-> "Large file", file |-> k]>> ELSE <<>>
           loops == IF f.parses /\ f.nested
                    THEN <<[issue |-> "Nested loops", file |-> k]>> ELSE <<>>
       IN  /\ findings' = findings \o large \o loops
           /\ file_idx' = k
    /\ UNCHANGED <<coreVars, genVars, jsonVars, unitVars, apiVars, dlVars, parVars,
                   py_files, attempt, calls, sleeps, inner_pc, inner_ret>>

\* return {"count": len(issues), "issues": issues}
PerformanceReturn ==
    /\ inner_pc = "perf"
    /\ file_idx = Len(py_files)
    /\ inner_ret' = [count |-> Len(findings), issues |-> findings]
    /\ inner_pc' = "returned"
    /\ UNCHANGED <<coreVars, genVars, jsonVars, unitVars, apiVars, dlVars, parVars,
                   py_files, file_idx, findings, attempt, calls, sleeps>>

NextPerf ==
    \/ PerformanceFile
    \/ PerformanceReturn

SpecPerf == InitPerf /\ [][NextPerf]_vars

\* ------------------------------------- ParserAgent.run and analyze_code
\* values of the returned mappings: an int, or a str as the pieces it is
\* formatted from
Num(k) == [t |-> "int", n |-> k, s |-> <<>>]

Str(pieces) == [t |-> "str", n |-> 0, s |-> pieces]

\* {**a, **b}
RECURSIVE DictUpdate(_, _)
DictUpdate(a, b) ==
    IF b = <<>> THEN a
    ELSE DictUpdate(DictSet(a, Head(b).key, Head(b).val), Tail(b))

\* a collected file: what read_text gives ("unreadable": it raises) and the
\* number of function definitions ast.walk finds in it (none of them calls a
\* plain name, so every graph node is a function and there are no edges)
ParserFiles ==
    {[content |-> "empty", functions |-> 0],
     [content |-> "unreadable", functions |-> 0],
     [content |-> "text", functions |-> 0],
     [content |-> "text", functions |-> 1]}

\* generate_content: it returns a response with a text, or it raises
Responses ==
    {[ok |-> TRUE, text |-> "overview"], [ok |-> TRUE, text |-> ""],
     [ok |-> FALSE, text |-> "quota exceeded"]}

max_retries == 3

BackoffFlat(a) == 1

\* time.sleep(2 ** attempt)
Backoff(a) == 2 ^ a

\* the repository holds at most MaxFiles files, fewer than GEMINI_MAX_FILES:
\* sample_files is the whole list
InitParser ==
    /\ CoreInit
    /\ GenIdle
    /\ JsonIdle
    /\ UnitsIdle
    /\ ApiIdle
    /\ DlIdle
    /\ ParIdle
    /\ py_files \in UNION {[1..n -> ParserFiles] : n \in 0..MaxFiles}
    /\ file_idx = 0
    /\ findings = <<>>
    /\ attempt = 0
    /\ calls = <<>>
    /\ sleeps = <<>>
    /\ inner_pc = "parser"
    /\ inner_ret = <<>>

\* analyze_code up to the retry loop: the two early returns, the prompt
AnalyzeCodeEnter ==
    /\ inner_pc = "parser"
    /\ LET file_contents ==
               SelectSeq(py_files, LAMBDA f : f.content = "text")
       IN  IF py_files = <<>>
           THEN /\ inner_ret' =
                     <<[key |-> "gemini_summary",
                        val |-> Str(<<"No Python files found to analyze.">>)],
                       [key |-> "file_count", val |-> Num(0)]>>
                /\ inner_pc' = "analyzed"
           ELSE IF file_contents = <<>>
           THEN /\ inner_ret' =
                     <<[key |-> "gemini_summary",
                        val |-> Str(<<"Python files were empty; nothing to analyze.">>)],
                       [key |-> "file_count", val |-> Num(0)]>>
                /\ inner_pc' = "analyzed"
           ELSE /\ inner_pc' = "call"
                /\ UNCHANGED inner_ret
    /\ UNCHANGED <<coreVars, genVars, jsonVars, unitVars, apiVars, dlVars, parVars,
                   py_files, file_idx, findings, attempt, calls, sleeps>>

\* one pass of "for attempt in range(max_retries)" up to its return or its sleep
GenerateContent ==
    /\ inner_pc = "call"
    /\ attempt < max_retries
    /\ \E r \in Responses :
          /\ calls' = Append(calls, r)
          /\ IF r.ok
             THEN /\ inner_ret' =
                       <<[key |-> "gemini_summary", val |-> Str(<<r.text>>)],
                         [key |-> "file_count", val |-> Num(Len(py_files))],
                         [key |-> "analyzed_files", val |-> Num(Len(py_files))]>>
                  /\ inner_pc' = "analyzed"
             ELSE IF attempt < max_retries - 1
             THEN /\ inner_pc' = "sleep"
                  /\ UNCHANGED inner_ret
             ELSE /\ inner_ret' =
                       <<[key |-> "gemini_summary",
                          val |-> Str(<<"Gemini analysis failed after ", "3",
                                        " attempts: ", r.text>>)],
                         [key |-> "file_count", val |-> Num(Len(py_files))],
                         [key |-> "analyzed_files", val |-> Num(0)],
                         [key |-> "error", val |-> Str(<<r.text>>)]>>
                  /\ inner_pc' = "analyzed"
    /\ UNCHANGED <<coreVars, genVars, jsonVars, unitVars, apiVars, dlVars, parVars,
                   py_files, file_idx, findings, attempt, sleeps>>

\* time.sleep(2 ** attempt), then the next pass of the loop
BackoffSleep ==
    /\ inner_pc = "sleep"
    /\ sleeps' = Append(sleeps, Backoff(attempt))
    /\ attempt' = attempt + 1
    /\ inner_pc' = "call"
    /\ UNCHANGED <<coreVars, genVars, jsonVars, unitVars, apiVars, dlVars, parVars,
                   py_files, file_idx, findings, calls, inner_ret>>

\* ParserAgent.run's return: its own four counts, then **gemini_summary
ParserReturn ==
    /\ inner_pc = "analyzed"
    /\ LET total_functions ==
               Len(SelectSeq(py_files, LAMBDA f : f.functions = 1))
       IN  inner_ret' =
               DictUpdate(<<[key |-> "file_count", val |-> Num(Len(py_files))],
                            [key |-> "function_count", val |-> Num(total_functions)],
                            [key |-> "call_graph_nodes", val |-> Num(total_functions)],
                            [key |-> "call_graph_edges", val |-> Num(0)]>>,
                          inner_ret)
    /\ inner_pc' = "returned"
    /\ UNCHANGED <<coreVars, genVars, jsonVars, unitVars, apiVars, dlVars, parVars,
                   py_files, file_idx, findings, attempt, calls, sleeps>>

NextParser ==
    \/ AnalyzeCodeEnter
    \/ GenerateContent
    \/ BackoffSleep
    \/ ParserReturn

\* the steps of one call follow each other without outside scheduling
SpecParser == InitParser /\ [][NextParser]_vars /\ WF_vars(NextParser)

\* ------------------------------------------- two /analyze requests at once
\* uuid.uuid4().hex: 32 hex digits, no dot and no slash among them
Uuids == {"0f3a", "9c1e", "b772"}

UniqueBaseShared(u, o) == IF o.present THEN o.text ELSE <<"report">>

\* REPORT_DIR / f"{uuid.uuid4().hex}-{output_base}", as the name under REPORT_DIR
UniqueBaseFor(u, o) == <<u, "-">> \o (IF o.present THEN o.text ELSE <<"report">>)

\* the payloads of the two requests: output and formats
ParRequests ==
    [output : {[present |-> FALSE, text |-> <<>>],
               [present |-> TRUE, text |-> <<"report">>],
               [present |-> TRUE, text |-> <<"report", ".", "v2">>]},
     formats : {<<"json">>, <<"html", "json">>, <<"md">>}]

\* both requests have been accepted and their repositories located; each handler
\* runs in its own thread of the server
InitPar ==
    /\ CoreInit
    /\ GenIdle
    /\ JsonIdle
    /\ UnitsIdle
    /\ ApiIdle
    /\ DlIdle
    /\ InnerIdle
    /\ \E q \in [1..2 -> ParRequests] :
          handlers = [r \in 1..2 |->
                        [pc |-> "prepare", output |-> q[r].output,
                         formats |-> q[r].formats, uuid |-> "", todo |-> <<>>,
                         report_files |-> <<>>]]
    /\ report_dir = <<>>

\* "Prepare report output": uuid4 gives a value no earlier call gave
ParPrepare(r) ==
    /\ handlers[r].pc = "prepare"
    /\ \E u \in Uuids \ {handlers[q].uuid : q \in 1..2} :
          handlers' = [handlers EXCEPT
                          ![r].uuid = u,
                          ![r].todo = SeqOf(Range(handlers[r].formats)),
                          ![r].pc = "run"]
    /\ UNCHANGED <<coreVars, genVars, jsonVars, unitVars, apiVars, dlVars, innerVars,
                   report_dir>>

\* one write_text of generate, run by orchestrator.run for this request
ParWrite(r) ==
    /\ handlers[r].pc = "run"
    /\ handlers[r].todo # <<>>
    /\ LET h == handlers[r]
           path == WithSuffix(UniqueBaseFor(h.uuid, h.output), Head(h.todo))
       IN  report_dir' = Append(report_dir, [path |-> path, by |-> r])
    /\ handlers' = [handlers EXCEPT ![r].todo = Tail(@)]
    /\ UNCHANGED <<coreVars, genVars, jsonVars, unitVars, apiVars, dlVars, innerVars>>

\* run has returned: report_files is built from what exists under REPORT_DIR
ParRespond(r) ==
    /\ handlers[r].pc = "run"
    /\ handlers[r].todo = <<>>
    /\ LET h == handlers[r]
       IN  handlers' = [handlers EXCEPT
                           ![r].report_files =
                               ReportFiles(UniqueBaseFor(h.uuid, h.output), h.formats,
                                           {w.path : w \in Range(report_dir)}),
                           ![r].pc = "responded"]
    /\ UNCHANGED <<coreVars, genVars, jsonVars, unitVars, apiVars, dlVars, innerVars,
                   report_dir>>

NextPar ==
    \E r \in 1..2 :
        \/ ParPrepare(r)
        \/ ParWrite(r)
        \/ ParRespond(r)

SpecPar == InitPar /\ [][NextPar]_vars


\* ================================================================ claims
\* ------------------------------------------------- vocabulary of the claims
ValidIds == {"json", "html", "md", "pdf", "docx"}

EventsOf(kind) == {i \in 1..Len(log) : log[i].ev = kind}

WrittenPaths == {log[i].path : i \in EventsOf("write")}

\* the names of s in the order of their first occurrence
FirstOccurrences(s) ==
    LET F[n \in 0..Len(s)] ==
            IF n = 0 THEN <<>>
            ELSE IF \E j \in 1..(n-1) : s[j] = s[n] THEN F[n-1]
                 ELSE Append(F[n-1], s[n])
    IN  F[Len(s)]

\* the position of run event r among the run events
RunPosition(r) == Cardinality({h \in EventsOf("run") : h <= r})

GenerateEntered == gen_calls >= 1 /\ pc # "gen_validate"

PathOf(fmt) == WithSuffix(gen_args.base_path, fmt)

\* C1: when run returns (so no unit raised), the key set of the returned document
\* is exactly the set of names of the registered units.
C1_KeySetIsUnitNames ==
    pc = "done" => (ret.returned /\ KeySet(ret.doc) = Range(agents))

C1_Witness ==
    /\ pc = "done"
    /\ Len(agents) = 2
    /\ agents[1] # agents[2]
    /\ Cardinality(KeySet(ret.doc)) = 2

\* C2: the units are run one at a time in registration order (the k-th run event is
\* unit k), and the keys of the document follow the order of (first) registration.
C2_RegistrationOrder ==
    /\ \A r \in EventsOf("run") : log[r].unit = RunPosition(r)
    /\ Cardinality(EventsOf("run")) \in {idx, idx + 1}
    /\ Keys(results) = FirstOccurrences(SubSeq(agents, 1, idx))
    /\ pc = "done" => /\ Cardinality(EventsOf("run")) = Len(agents)
                      /\ Keys(ret.doc) = FirstOccurrences(agents)

C2_Witness ==
    /\ pc = "done"
    /\ Len(agents) = 2
    /\ agents[1] # agents[2]
    /\ Keys(ret.doc) = agents
    /\ {log[r].unit : r \in EventsOf("run")} = {1, 2}

\* C3: generate is invoked at most once, only after every registered unit has run,
\* and when run returns it was invoked exactly once with run's output path, the
\* document run returns and the caller's formats as given (None stays None).
C3_GenerateOnceAfterUnits ==
    /\ gen_calls <= 1
    /\ Cardinality(EventsOf("generate")) = gen_calls
    /\ \A g \in EventsOf("generate") :
          /\ {log[i].unit : i \in {r \in EventsOf("run") : r < g}} = 1..Len(agents)
          /\ \A r \in EventsOf("run") : r < g
          /\ EventsOf("raise") = {}
    /\ \A w \in EventsOf("write") : \E g \in EventsOf("generate") : g < w
    /\ pc = "done" =>
          /\ gen_calls = 1
          /\ gen_args = [base_path |-> output_path, results |-> ret.doc,
                         formats |-> formats]

C3_Witness ==
    /\ pc = "done"
    /\ formats = None
    /\ gen_args.formats = None
    /\ Len(agents) = 2
    /\ gen_calls = 1

\* C4: once the k-th unit's run has raised, run is over with that exception: the
\* raise is the last thing that happened (no later unit ran, generate was not
\* invoked, nothing was written) and run returned nothing.
C4_UnitRaiseAborts ==
    \A i \in EventsOf("raise") :
       /\ i = Len(log)
       /\ pc = "raised"
       /\ exc = [type |-> "UnitError", ids |-> {}, unit |-> log[i].unit]
       /\ \A r \in EventsOf("run") : log[r].unit <= log[i].unit
       /\ gen_calls = 0
       /\ EventsOf("generate") = {}
       /\ DOMAIN fs = {}
       /\ ~ret.returned

C4_Witness ==
    /\ pc = "raised"
    /\ exc.type = "UnitError"
    /\ exc.unit = 1
    /\ Len(agents) = 2
    /\ log[Len(log)].ev = "raise"


\* C5: a request with an identifier outside {json, html, md, pdf, docx} ends in
\* generate's ValueError naming exactly the foreign identifiers, and nothing has
\* been written, not even for the valid formats of the request.
C5_InvalidFormatRaisesBeforeWriting ==
    (GenerateEntered /\ ~(Range(gen_args.formats.ids) \subseteq ValidIds)) =>
       /\ pc = "raised"
       /\ exc.type = "ValueError"
       /\ exc.ids = Range(gen_args.formats.ids) \ ValidIds
       /\ EventsOf("write") = {}
       /\ DOMAIN fs = {}
       /\ ~html_content
       /\ ~gen_ret.returned
       /\ ~ret.returned

C5_Witness ==
    /\ pc = "raised"
    /\ exc.type = "ValueError"
    /\ exc.ids = {"invalid_format"}
    /\ gen_args.formats.ids = <<"json", "invalid_format">>
    /\ writable
    /\ DOMAIN fs = {}

\* C6: with only supported identifiers requested, generate never raises, whatever
\* the document and whatever the rendering steps do.
C6_ValidFormatsNeverRaise ==
    (gen_calls >= 1 /\ Range(gen_args.formats.ids) \subseteq ValidIds) =>
       pc # "raised"

\* C7: when generate returns, the returned list is exactly the files written in
\* the call, each once; a pdf/docx whose backend was unavailable or failed is not
\* in it, and every other requested format is written and listed.
C7_ReturnedListIsWhatWasWritten ==
    gen_ret.returned =>
       /\ Range(gen_ret.doc) = WrittenPaths
       /\ Range(gen_ret.doc) = DOMAIN fs
       /\ Len(gen_ret.doc) = Cardinality(EventsOf("write"))
       /\ \A f \in {"json", "html", "md"} :
             f \in Range(eff_formats) => PathOf(f) \in Range(gen_ret.doc)
       /\ ("pdf" \in Range(eff_formats)) =>
             (PathOf("pdf") \in Range(gen_ret.doc) <=> (pdf_outcome = "ok" /\ writable))
       /\ ("docx" \in Range(eff_formats)) =>
             (PathOf("docx") \in Range(gen_ret.doc) <=> (docx_outcome = "ok" /\ writable))
       /\ exc = NoExc

C7_Witness ==
    /\ gen_ret.returned
    /\ eff_formats = <<"json", "html", "md", "pdf", "docx">>
    /\ pdf_outcome = "unavailable"
    /\ docx_outcome = "fail"
    /\ Len(gen_ret.doc) = 3

\* C8: a file is written only for a format of the effective formats list; the HTML
\* content is rendered in every call that gets past the HTML step, requested or
\* not, and when generate returns the .html file exists if and only if "html" was
\* requested.
C8_OnlyRequestedFormatsWritten ==
    /\ \A w \in EventsOf("write") :
          /\ log[w].fmt \in Range(eff_formats)
          /\ log[w].path[Len(log[w].path)] = log[w].fmt
    /\ \A p \in DOMAIN fs : p[Len(p)] \in Range(eff_formats)
    /\ pc \in {"gen_md", "gen_pdf", "gen_docx", "gen_return", "run_return", "done"}
          => html_content
    /\ gen_ret.returned =>
          /\ (\E p \in DOMAIN fs : p[Len(p)] = "html") <=> ("html" \in Range(eff_formats))

C8_Witness ==
    /\ gen_ret.returned
    /\ html_content
    /\ eff_formats = <<"json", "md">>
    /\ Cardinality(DOMAIN fs) = 2

\* C9: every artifact is written at <base path>.<extension>, the full base path
\* kept, also when the base path's last component holds a dot.
C9_PathIsBaseDotExtension ==
    \A w \in EventsOf("write") :
       log[w].path = gen_args.base_path \o <<".", log[w].fmt>>

\* C10: with formats None or the empty list, generate goes on with [json, html]:
\* when it returns, the .json and the .html artifact are written and no other.
C10_DefaultFormats ==
    (GenerateEntered /\ (~gen_args.formats.given \/ gen_args.formats.ids = <<>>)) =>
       /\ eff_formats = <<"json", "html">>
       /\ exc.type # "ValueError"
       /\ gen_ret.returned =>
             /\ DOMAIN fs = {PathOf("json"), PathOf("html")}
             /\ gen_ret.doc = <<PathOf("json"), PathOf("html")>>
             /\ fs[PathOf("json")] = <<Render("json", gen_args.results)>>
             /\ fs[PathOf("html")] = <<Render("html", gen_args.results)>>

C10_Witness ==
    /\ gen_ret.returned
    /\ gen_args.formats = List(<<>>)
    /\ Cardinality(DOMAIN fs) = 2

\* C11: when generate is called a second time with the same base path, document and
\* formats, it returns the same list of paths as the first time, and every file it
\* lists holds exactly one rendering of the document: the second call replaced the
\* first call's content, it was not added to it.
C11_SecondCallOverwrites ==
    (pc = "gen_returned" /\ first_ret # NoReturn) =>
        /\ gen_ret.doc = first_ret.doc
        /\ \A i \in 1..Len(gen_ret.doc) :
              \E fmt \in SUPPORTED_FORMATS :
                 /\ gen_ret.doc[i] = WithSuffix(gen_args.base_path, fmt)
                 /\ fs[gen_ret.doc[i]] = <<Render(fmt, gen_args.results)>>

C11_Witness ==
    /\ pc = "gen_returned"
    /\ first_ret # NoReturn
    /\ gen_calls = 2
    /\ Len(gen_ret.doc) >= 2
    /\ gen_args.results # <<>>

\* a document made of what JSON has: mappings with string keys, lists, strings,
\* integers, booleans and None
RECURSIVE JsonSafe(_)
JsonSafe(v) ==
    /\ v.t \in {"str", "int", "bool", "none", "list", "dict"}
    /\ \A i \in 1..Len(v.keys) : v.keys[i].t = "str"
    /\ \A i \in 1..Len(v.items) : JsonSafe(v.items[i])

\* C12: for every JSON-safe document, the empty one included, what json.load reads
\* from the .json artifact is equal to the document that was written.
C12_JsonRoundTrip ==
    (j_data # NoData /\ JsonSafe(j_results)) => PyEq(j_data, j_results)

C12_Witness ==
    /\ j_data # NoData
    /\ JsonSafe(j_results)
    /\ Len(j_results.items) = 2
    /\ j_results.items[2].t = "dict"
    /\ PyEq(j_data, j_results)

C12_WitnessEmpty ==
    /\ j_data # NoData
    /\ j_results = PyDict(<<>>, <<>>)

C12_NotSafeDiffers ==
    /\ j_data # NoData
    /\ ~JsonSafe(j_results)
    /\ ~PyEq(j_data, j_results)

\* C13: a run with no unit registered returns the empty document, has invoked
\* generate exactly once, with the empty document, and when json was requested the
\* .json artifact holds one rendering whose JSON text is the empty object.
C13_NoUnitsEmptyDocument ==
    (pc = "done" /\ agents = <<>>) =>
        /\ ret.doc = <<>>
        /\ Cardinality(EventsOf("generate")) = 1
        /\ gen_calls = 1
        /\ gen_args.results = <<>>
        /\ Requested("json", eff_formats) =>
              /\ PathOf("json") \in DOMAIN fs
              /\ Len(fs[PathOf("json")]) = 1
              /\ fs[PathOf("json")][1].json = JObject(<<>>, <<>>)

C13_Witness ==
    /\ pc = "done"
    /\ agents = <<>>
    /\ ret.doc = <<>>
    /\ Requested("json", eff_formats)
    /\ PathOf("json") \in DOMAIN fs

\* the three section headings are there in the fixed order, each followed by the
\* unit's metrics/findings or by the line that says there are none
MdSectionsInOrder(text) ==
    /\ Len(text) = 7
    /\ text[2] = "## Parser Results"
    /\ text[3] \in {"parser metrics", "No parser results available."}
    /\ text[4] = "## Performance Issues"
    /\ text[5] \in {"performance issue lines",
                     "No significant performance issues detected."}
    /\ text[6] = "## Security Findings"
    /\ text[7] \in {"security finding lines",
                     "No critical security findings detected."}

\* C14: for every results document, also one that lacks some or all of the three
\* keys, rendering the markdown artifact does not raise, and the artifact has the
\* three section headings in the order Parser Results, Performance Issues, Security
\* Findings, each followed by findings or by a "no ..." line.
C14_MarkdownRendersEveryDocument ==
    /\ exc.type # "AttributeError"
    /\ \A p \in DOMAIN fs : \A i \in 1..Len(fs[p]) :
          fs[p][i].fmt = "md" => MdSectionsInOrder(fs[p][i].text)

\* the part of C14 that the code keeps: missing keys and the built-in units' mappings
C14_WellFormedDocumentsRender ==
    /\ (exc.type = "AttributeError") => MdRaises(gen_args.results)
    /\ \A p \in DOMAIN fs : \A i \in 1..Len(fs[p]) :
          fs[p][i].fmt = "md" => MdSectionsInOrder(fs[p][i].text)

\* C15: whichever built-in unit is run, and whatever collaborator is unreachable
\* or without credentials, run returns (no exception leaves it), and what it returns
\* for that collaborator is empty or error-shaped.
C15_CollaboratorFailureStaysInside ==
    unit_run.status # "none" =>
        /\ unit_run.status = "returned"
        /\ (unit_run.unit = "parser_results" /\ env.files /\ ~env.gemini_up)
              => unit_run.summary = "error"
        /\ (unit_run.unit = "security_findings" /\ env.files /\ env.insecure
               /\ (~env.nvd_key \/ ~env.nvd_up))
              => unit_run.cve = "empty"
        /\ (unit_run.unit = "security_findings" /\ ~(env.project /\ env.bq_up))
              => unit_run.bigquery = "error"

\* the part of C15 that the code keeps: the Security and Performance units
C15_SecurityAndPerformanceDegrade ==
    unit_run.unit \in {"security_findings", "performance_issues"} =>
        /\ unit_run.status = "returned"
        /\ (env.files /\ env.insecure /\ (~env.nvd_key \/ ~env.nvd_up))
              => unit_run.cve \in {"", "empty"}
        /\ ~(env.project /\ env.bq_up) => unit_run.bigquery \in {"", "error"}

\* the orders in which n units can be executed
ExecutionOrders(n) ==
    {o \in [1..n -> 1..n] : \A i, j \in 1..n : o[i] = o[j] => i = j}

\* the document built when the first k units of the order o have been executed:
\* the unit registered at position p returns what it returned in this run
RECURSIVE MergedInOrder(_, _)
MergedInOrder(o, k) ==
    IF k = 0 THEN <<>>
    ELSE DictSet(MergedInOrder(o, k - 1), agents[o[k]], unit_vals[o[k]])

\* a document as a mapping: the order of its keys is left out
AsMapping(d) == {<<d[i].key, d[i].val>> : i \in 1..Len(d)}

OrderIndependent ==
    \A o \in ExecutionOrders(Len(agents)) :
        AsMapping(MergedInOrder(o, Len(agents))) = AsMapping(ret.doc)

\* C16 as stated: whatever units are registered, the document of a run that
\* returned is, as a mapping, the one every other order of execution gives.
C16_OrderIndependentAlways ==
    pc = "done" => OrderIndependent

\* C16, amended: when the registered units have pairwise distinct names, the
\* document of a run that returned has, in every order of execution of the same
\* units, the same keys with the same values.
C16_OrderIndependentForDistinctNames ==
    (pc = "done" /\ Cardinality(Range(agents)) = Len(agents)) => OrderIndependent

C16_Witness ==
    /\ pc = "done"
    /\ Len(agents) = 2
    /\ agents[1] # agents[2]
    /\ MergedInOrder(<<2, 1>>, 2) # ret.doc
    /\ AsMapping(MergedInOrder(<<2, 1>>, 2)) = AsMapping(ret.doc)

\* nothing of the analysis has been started: no temporary directory, no clone,
\* no Orchestrator, no unit run
NothingStarted ==
    /\ tmp_repo_ctx.created = 0
    /\ clones = <<>>
    /\ orchestrators = 0
    /\ EventsOf("run") = {}

\* C17: a request whose repo_url is missing or empty is answered 400 'repo_url is
\* required'; one whose repo_url is no existing local path and starts with none of
\* https://, http://, git@ is answered 400 'Unsupported repo_url protocol'; in both
\* cases at no time a temporary directory is created, a clone attempted, an
\* Orchestrator created or a unit run.
C17_UnsupportedProtocolRejectedFirst ==
    LET u == request.repo_url
    IN  /\ (api_pc # "none" /\ (~u.present \/ u.text = <<>>)) =>
              /\ NothingStarted
              /\ api_pc = "responded" => response = Respond(400, "repo_url is required")
        /\ (api_pc # "none" /\ u.present /\ u.text # <<>>
               /\ u.text \notin LocalRepos
               /\ u.text[1] \notin {"https://", "http://", "git@"}) =>
              /\ NothingStarted
              /\ api_pc = "responded" =>
                    response = Respond(400, "Unsupported repo_url protocol")

C17_Witness ==
    /\ api_pc = "responded"
    /\ request.repo_url.text = <<"ftp://", "host/repo">>
    /\ response = Respond(400, "Unsupported repo_url protocol")

\* the names of the artifacts the renderer wrote for this request
ArtifactsWritten == {written[i] : i \in 1..Len(written)}

\* C18: in a 200 response, report_files names exactly the artifacts the renderer
\* wrote for the request, whatever the output basename, also one with a dot.
C18_ReportFilesAreTheArtifacts ==
    response.status = 200 => Range(response.report_files) = ArtifactsWritten

\* the part of C18 the code keeps: a basename without a dot and a non-empty list
C18_PlainBasenameListed ==
    (response.status = 200 /\ ~request.output.present /\ formats.ids # <<>>)
        => Range(response.report_files) = ArtifactsWritten

\* C19: when the clone fails the answer is 400 'Failed to clone repo', the temporary
\* directory has been cleaned up exactly once, and no Orchestrator was created and
\* no unit run.
C19_FailedCloneCleansUp ==
    ("failed" \in Range(clones)) =>
        /\ api_pc = "responded"
        /\ response = Respond(400, "Failed to clone repo")
        /\ tmp_repo_ctx = [created |-> 1, cleanups |-> 1]
        /\ orchestrators = 0
        /\ EventsOf("run") = {}
        /\ pc = "idle"

C19_Witness ==
    /\ api_pc = "responded"
    /\ clones = <<"failed">>
    /\ response.error = "Failed to clone repo"
    /\ tmp_repo_ctx.cleanups = 1

\* the path lies inside REPORT_DIR: below it, component by component
InsideReportDir(path) ==
    /\ Len(path) > Len(REPORT_DIR)
    /\ SubSeq(path, 1, Len(REPORT_DIR)) = REPORT_DIR

\* C20: a file is served only when the resolved path lies inside REPORT_DIR; a
\* filename that resolves outside it, by ".." or into a sibling directory whose name
\* starts with REPORT_DIR's name, is answered 404.
C20_ServedOnlyInsideReportDir ==
    /\ dl_response.status = 200 => InsideReportDir(dl_response.path)
    /\ (dl_response.status # 0
           /\ ~InsideReportDir(Resolve(REPORT_DIR \o dl_filename)))
          => dl_response.status = 404

\* the part of C20 the code keeps: outside means 404 unless the text of the path
\* happens to start with the text of REPORT_DIR
C20_OutsideServedOnlyForSharedPrefix ==
    (dl_response.status = 200 /\ ~InsideReportDir(dl_response.path))
        => dl_response.path[Len(REPORT_DIR)] = <<"reports", "_private">>

\* the position of the last registration under the name n
LastRegistered(n) ==
    CHOOSE i \in 1..Len(agents) :
        agents[i] = n /\ \A j \in 1..Len(agents) : agents[j] = n => j <= i

C28_UnsupportedRejectedAfterUnits ==
    /\ (pc \in {"done", "raised"} /\ EventsOf("raise") = {}
          /\ ~(Range(formats.ids) \subseteq ValidIds)) =>
             /\ pc = "raised"
             /\ exc.type = "ValueError"
    /\ exc.type = "ValueError" =>
          /\ Cardinality(EventsOf("run")) = Len(agents)
          /\ Len(unit_vals) = Len(agents)
          /\ Keys(results) = FirstOccurrences(agents)
          /\ ret = NoReturn
          /\ DOMAIN fs = {}
          /\ EventsOf("write") = {}

C28_Witness ==
    /\ pc = "raised"
    /\ exc.type = "ValueError"
    /\ Len(agents) = 2
    /\ Len(results) = 2
    /\ "json" \in Range(formats.ids)

\* C29: whenever the /analyze handler has answered and a temporary directory had
\* been created, its cleanup has been invoked exactly once.
C29_TemporaryDirectoryCleanedOnce ==
    (api_pc = "responded" /\ tmp_repo_ctx.created > 0) => tmp_repo_ctx.cleanups = 1

\* the part of C29 the code keeps: a failed clone and a run that returned
C29_CleanedOnceUnlessRunRaised ==
    (api_pc = "responded" /\ tmp_repo_ctx.created > 0 /\ pc # "raised")
        => tmp_repo_ctx.cleanups = 1

\* C30: when generate ends in an exception raised by rendering the HTML or the
\* markdown content, no artifact of the call is on disk.
C30_RenderingFailureLeavesNothing ==
    exc.type = "AttributeError" => (DOMAIN fs = {} /\ written = <<>>)

\* the findings of a kind about a name / a pattern
FindingsOf(issue, of) ==
    {i \in 1..Len(findings) : findings[i].issue = issue /\ findings[i].of = of}

\* C22: every pattern finding carries the severity of the classification: CRITICAL
\* for the shell=True and DEBUG=True patterns, HIGH for the hardcoded password,
\* api_key, secret and token patterns, MEDIUM for the others.
C22_PatternSeverityByTable ==
    \A i \in 1..Len(findings) :
        findings[i].issue = "pattern" =>
            findings[i].severity =
                IF findings[i].of \in {"shell", "DEBUG"} THEN "CRITICAL"
                ELSE IF findings[i].of \in {"password", "api_key", "secret", "token"}
                THEN "HIGH"
                ELSE "MEDIUM"

\* what the code does instead: every pattern finding is MEDIUM, while the texts of
\* the unit test get the severities of the table
C22_PatternFindingsAreMedium ==
    /\ \A i \in 1..Len(findings) :
          findings[i].issue = "pattern" => findings[i].severity = "MEDIUM"
    /\ SeverityForPattern(<<"shell", "=", "True">>) = "CRITICAL"
    /\ SeverityForPattern(<<"password", "=">>) = "HIGH"
    /\ SeverityForPattern(<<"md5", "(">>) = "MEDIUM"

C24_OneLargeFileIssuePerLargeFile ==
    inner_pc = "returned" =>
        /\ \A k \in 1..Len(py_files) :
              Cardinality({i \in 1..Len(inner_ret.issues) :
                              inner_ret.issues[i] = [issue |-> "Large file",
                                                     file |-> k]})
                = IF py_files[k].lines >= 1001 THEN 1 ELSE 0
        /\ inner_ret.count = Len(inner_ret.issues)

C24_Witness ==
    /\ inner_pc = "returned"
    /\ Len(py_files) = 2
    /\ py_files[1].lines = 1001
    /\ ~py_files[1].parses
    /\ py_files[2].lines = 1000
    /\ inner_ret.count = 1

\* the value the returned mapping holds under a key
ValueAt(d, k) == d[CHOOSE i \in 1..Len(d) : d[i].key = k].val

\* C21: the file_count of ParserAgent.run's result is the number of Python files
\* the unit collected, for every repository and every summarizer response.
C21_FileCountIsCollectedFiles ==
    inner_pc = "returned" =>
        ValueAt(inner_ret, "file_count") = Num(Len(py_files))

\* what the code does keep: the count is right as soon as one collected file has
\* content, and it is 0 otherwise
C21_FileCountForFilesWithContent ==
    inner_pc = "returned" =>
        ValueAt(inner_ret, "file_count") =
            IF \E i \in 1..Len(py_files) : py_files[i].content = "text"
            THEN Num(Len(py_files)) ELSE Num(0)

\* the files analyze_code was given are all readable and non-empty
NonEmptyFiles ==
    /\ py_files # <<>>
    /\ \A i \in 1..Len(py_files) : py_files[i].content = "text"

Failures == Len(SelectSeq(calls, LAMBDA r : ~r.ok))

\* C25: given a non-empty list of non-empty files, analyze_code calls the model at
\* most 3 times, never calls it again after a success, waits 1 second after the
\* first failure and 2 seconds after the second and not after the third, returns
\* the summary of the first success or, after 3 failures, a mapping with an
\* 'error' key and analyzed_files 0; and it always returns.
C25_BoundedRetryWithBackoff ==
    /\ [](NonEmptyFiles =>
            /\ Len(calls) <= 3
            /\ \A i \in 1..(Len(calls) - 1) : ~calls[i].ok
            /\ \E n \in 0..2 : sleeps = SubSeq(<<1, 2>>, 1, n)
            /\ Len(sleeps) = IF inner_pc = "sleep" THEN Failures - 1
                              ELSE IF Failures = 3 THEN 2 ELSE Failures
            /\ inner_pc = "analyzed" =>
                  /\ calls # <<>>
                  /\ IF calls[Len(calls)].ok
                     THEN /\ ValueAt(inner_ret, "gemini_summary")
                               = Str(<<calls[Len(calls)].text>>)
                          /\ "error" \notin KeySet(inner_ret)
                     ELSE /\ Failures = 3
                          /\ "error" \in KeySet(inner_ret)
                          /\ ValueAt(inner_ret, "analyzed_files") = Num(0))
    /\ <>(inner_pc = "analyzed")

C25_Witness ==
    /\ NonEmptyFiles
    /\ inner_pc = "analyzed"
    /\ Failures = 3
    /\ sleeps = <<1, 2>>
    /\ "error" \in KeySet(inner_ret)

\* C27: two requests handled at once never write the same artifact path; the
\* base of each is prefixed by its own uuid, different from the other's; and the
\* report_files of a request name only artifacts that this request wrote.
C27_ConcurrentRequestsWriteApart ==
    /\ \A v, w \in Range(report_dir) : v.path = w.path => v.by = w.by
    /\ \A r \in 1..2 :
          handlers[r].pc # "prepare" =>
              /\ Head(UniqueBaseFor(handlers[r].uuid, handlers[r].output))
                    = handlers[r].uuid
              /\ \A q \in (1..2) \ {r} : handlers[q].uuid # handlers[r].uuid
              /\ \A w \in Range(report_dir) : w.by = r => Head(w.path) = handlers[r].uuid
    /\ \A r \in 1..2 :
          \A i \in 1..Len(handlers[r].report_files) :
              /\ [path |-> handlers[r].report_files[i], by |-> r] \in Range(report_dir)
              /\ \A w \in Range(report_dir) :
                    w.path = handlers[r].report_files[i] => w.by = r

C27_Witness ==
    /\ handlers[1].pc = "responded"
    /\ handlers[2].pc = "responded"
    /\ handlers[1].output = handlers[2].output
    /\ handlers[1].formats = <<"html", "json">>
    /\ handlers[2].formats = <<"html", "json">>
    /\ Len(report_dir) = 4
    /\ report_dir[1].by = 2
    /\ report_dir[2].by = 1
    /\ Len(handlers[1].report_files) = 2
    /\ Len(handlers[2].report_files) = 2

====
